---- MODULE Spec2Model ----
(***************************************************************************)
(* Model of app1.py: a Streamlit script that drives a four-stage prompt    *)
(* pipeline (COBOL -> BRD -> Java -> optimized Java -> enterprise Java).   *)
(* Every user interaction re-runs the script top to bottom; at most one    *)
(* button returns True in a run.  One action of the model is one script    *)
(* run.  st.session_state is the only state that survives between runs,    *)
(* together with the widget values of the two text areas.                  *)
(***************************************************************************)
EXTENDS Integers, Sequences, FiniteSets, TLC

\* ---------------------------------------------------------------- bounds
\* Longest text typed into a text area.
MaxLen == 2
\* Most requests sent to the external model in one session.
MaxCalls == 8

\* ----------------------------------------------------------------- texts
\* Characters of the text-area inputs: one whitespace, one non-whitespace.
Chars == {" ", "x"}

Texts == UNION {[1..n -> Chars] : n \in 0..MaxLen}

\* The glossary is optional: left empty, or one term.
GlossaryTexts == {<<>>, <<"x">>}

isspace(c) == c = " "

RECURSIVE lstrip(_)
lstrip(s) ==
    IF s = <<>> THEN <<>>
    ELSE IF isspace(Head(s)) THEN lstrip(Tail(s))
    ELSE s

RECURSIVE rstrip(_)
rstrip(s) ==
    IF s = <<>> THEN <<>>
    ELSE IF isspace(s[Len(s)]) THEN rstrip(SubSeq(s, 1, Len(s) - 1))
    ELSE s

\* str.strip(): leading and trailing whitespace removed.
strip(s) == rstrip(lstrip(s))

\* ------------------------------------------------- the external collaborator
\* crew.kickoff() either returns a result or raises.  The text a request
\* returns is a token naming the task and the number of the request, so two
\* requests never return the same text.
Token(task, n) == [task |-> task, call |-> n]

NoToken == Token("none", 0)

\* The result recorded for a request that raised.
Raised == Token("raised", 0)

Outcomes == {"ok", "raise"}

Result(task, n, outcome) == IF outcome = "ok" THEN Token(task, n) ELSE Raised

\* ------------------------------------------------------------ session state
Stages == {"generate_brd", "generate_java", "evaluate_and_optimize",
           "refine_enterprise"}

NoWarning == "none"

VARIABLES
    session_state,  \* st.session_state: a dict, DOMAIN = the keys present
    cobol_code,     \* value of the COBOL text area
    glossary,       \* value of the glossary text area
    invoked,        \* the stage invoked in the latest script run, or "none"
    warning,        \* st.warning text of the latest script run
    requests,       \* requests sent to the external model in the latest run
    calls,          \* number of requests sent so far in the session
    show_original,  \* value of the "Show Original Java Code" checkbox
    first_java,     \* history: result of the first successful generate_java
    eval_started    \* history: evaluate_and_optimize has passed its guard

vars == <<session_state, cobol_code, glossary, show_original, invoked, warning,
          requests, calls, first_java, eval_started>>

\* st.session_state[k] = v
Store(s, k, v) == [x \in DOMAIN s \cup {k} |-> IF x = k THEN v ELSE s[x]]

Has(s, k) == k \in DOMAIN s

\* A new session: no key is present.
EmptySession == [k \in {} |-> NoToken]

Init ==
    /\ session_state = EmptySession
    /\ cobol_code = <<>>
    /\ glossary = <<>>
    /\ show_original = FALSE
    /\ invoked = "none"
    /\ warning = NoWarning
    /\ requests = <<>>
    /\ calls = 0
    /\ first_java = NoToken
    /\ eval_started = FALSE

\* --------------------------------------------------------------- prompts
\* A request is the task, the number of the request, the stored texts its
\* prompt embeds, and the result the collaborator returned.

\* analyze_cobol_task: the COBOL code and the glossary.
AnalysisRequest(n, code, gloss, outcome) ==
    [task |-> "analysis", call |-> n, cobol |-> code, glossary |-> gloss,
     result |-> Result("analysis", n, outcome)]

\* brd_generation_task: second task of the same crew, fed the analysis output.
BrdRequest(n, analysis, outcome) ==
    [task |-> "brd_generation", call |-> n, analysis |-> analysis,
     result |-> Result("brd_generation", n, outcome)]

\* java_generation_task: the COBOL code and the stored BRD.
JavaRequest(n, s, code, outcome) ==
    [task |-> "java_generation", call |-> n, cobol |-> code,
     brd |-> s["brd_output"],
     result |-> Result("java_generation", n, outcome)]

\* evaluation_task: the COBOL code and the stored Java code.
EvaluationRequest(n, s, code, outcome) ==
    [task |-> "evaluation", call |-> n, cobol |-> code,
     java |-> s["java_output"],
     result |-> Result("evaluation", n, outcome)]

\* Variant: the optimization prompt embeds the original snapshot.
OptimizationRequest_EmbedsOriginal(n, s, report, code, outcome) ==
    [task |-> "optimization", call |-> n, report |-> report,
     java |-> s["original_java_output"], cobol |-> code,
     result |-> Result("optimization", n, outcome)]

\* Variant: the optimization task sent is the one built before the
\* evaluation ran, whose prompt carries no evaluation report.
OptimizationRequest_NoReport(n, s, report, code, outcome) ==
    [task |-> "optimization", call |-> n, report |-> NoToken,
     java |-> s["java_output"], cobol |-> code,
     result |-> Result("optimization", n, outcome)]

\* optimization_task (the one built after the evaluation returned): the
\* evaluation report, the stored Java code and the COBOL code.
OptimizationRequest(n, s, report, code, outcome) ==
    [task |-> "optimization", call |-> n, report |-> report,
     java |-> s["java_output"], cobol |-> code,
     result |-> Result("optimization", n, outcome)]

\* refinement_task: the stored Java code and the COBOL code.
RefinementRequest(n, s, code, outcome) ==
    [task |-> "refinement", call |-> n, java |-> s["java_output"],
     cobol |-> code,
     result |-> Result("refinement", n, outcome)]

\* ---------------------------------------------------------------- guards
\* Variant: the guard tests the raw text, without strip().
BrdGuardFails_NoStrip(code) == code = <<>>

\* if not cobol_code.strip()
BrdGuardFails(code) == strip(code) = <<>>

\* if "brd_output" not in st.session_state
JavaGuardFails(s) == ~Has(s, "brd_output")

\* if "java_output" not in st.session_state
EvaluateGuardFails(s) == ~Has(s, "java_output")

\* Variant: the refinement button is rendered once Java code exists.
RefineButtonRendered_OnJava(s) == Has(s, "java_output")

\* The refinement button is rendered only behind
\* "optimized_java_output" in st.session_state.
RefineButtonRendered(s) == Has(s, "optimized_java_output")

\* ---------------------------------------------------------------- stores
\* Variant: a BRD already stored is kept.
StoreBrd_KeepsFirst(s, r) ==
    IF Has(s, "brd_output") THEN s ELSE Store(s, "brd_output", r)

StoreBrd(s, r) == Store(s, "brd_output", r)

\* Variant: the original snapshot is not stored.
StoreJava_NoOriginal(s, r) == Store(s, "java_output", r)

\* Variant: generating Java code anew discards what the later stages stored.
StoreJava_DropsRefinements(s, r) ==
    LET t == Store(Store(s, "java_output", r), "original_java_output", r)
    IN  [k \in DOMAIN t \ {"evaluation_report", "optimized_java_output",
                           "enterprise_java_output", "optimization_level"}
            |-> t[k]]

\* Variant: generate_java also tags the level.
StoreJava_SetsLevel(s, r) ==
    Store(Store(Store(s, "java_output", r), "original_java_output", r),
          "optimization_level", "basic")

StoreJava(s, r) ==
    Store(Store(s, "java_output", r), "original_java_output", r)

\* Variant: the evaluation handler tags the level "enterprise".
StoreLevelAtEvaluate_Enterprise(s) == Store(s, "optimization_level", "enterprise")

\* Written as soon as the evaluation handler passes its guard.
StoreLevelAtEvaluate(s) == Store(s, "optimization_level", "basic")

\* Variant: the evaluation report is also written over the Java code.
StoreEvaluation_OverJava(s, r) ==
    Store(Store(s, "evaluation_report", r), "java_output", r)

StoreEvaluation(s, r) == Store(s, "evaluation_report", r)

\* Variant: the optimized code also replaces the original snapshot.
StoreOptimized_OverwritesOriginal(s, r) ==
    LET s1 == Store(s, "optimized_java_output", r)
        s2 == Store(s1, "java_output", s1["optimized_java_output"])
    IN  Store(s2, "original_java_output", s1["optimized_java_output"])

StoreOptimized(s, r) ==
    LET s1 == Store(s, "optimized_java_output", r)
    IN  Store(s1, "java_output", s1["optimized_java_output"])

\* Variant: the refined code is stored but java_output is not updated.
StoreEnterprise_KeepsJava(s, r) ==
    LET s1 == Store(s, "enterprise_java_output", r)
    IN  Store(s1, "optimization_level", "enterprise")

\* Variant: the refined code is also written over the optimized code.
StoreEnterprise_OverOptimized(s, r) ==
    LET s1 == Store(s, "enterprise_java_output", r)
        s2 == Store(s1, "optimized_java_output", s1["enterprise_java_output"])
        s3 == Store(s2, "java_output", s1["enterprise_java_output"])
    IN  Store(s3, "optimization_level", "enterprise")

StoreEnterprise(s, r) ==
    LET s1 == Store(s, "enterprise_java_output", r)
        s2 == Store(s1, "java_output", s1["enterprise_java_output"])
    IN  Store(s2, "optimization_level", "enterprise")

\* --------------------------------------------------------------- display
\* Variant: the file name tests the level against "Enterprise".
FileName_WrongCase(s) ==
    IF Has(s, "optimization_level") /\ s["optimization_level"] = "Enterprise"
    THEN "Enterprise_Java_Implementation.java"
    ELSE "COBOL_to_Java_Implementation.java"

\* file_name of the Java download button.
FileName(s) ==
    IF Has(s, "optimization_level") /\ s["optimization_level"] = "enterprise"
    THEN "Enterprise_Java_Implementation.java"
    ELSE "COBOL_to_Java_Implementation.java"

\* The session-state keys the display sections of a run read: the BRD
\* section, the evaluation report with its optional original-code view, and
\* the Java section.
DisplayReads(s, show) ==
    (IF Has(s, "brd_output") THEN {"brd_output"} ELSE {})
    \cup (IF Has(s, "evaluation_report")
          THEN {"evaluation_report"}
               \cup (IF show THEN {"original_java_output"} ELSE {})
          ELSE {})
    \cup (IF Has(s, "java_output") THEN {"java_output"} ELSE {})

\* ------------------------------------------------------------ script runs
\* What every run leaves alone: the widget values.
Widgets == <<cobol_code, glossary, show_original>>

\* Variant: the guard stops the handler without st.warning.
Reject_Silent(stage, msg) ==
    /\ invoked' = stage
    /\ warning' = NoWarning
    /\ requests' = <<>>
    /\ UNCHANGED <<session_state, calls, first_java, eval_started, cobol_code, glossary,
                 show_original>>

\* A run whose handler stops at its guard with st.warning(msg).
Reject(stage, msg) ==
    /\ invoked' = stage
    /\ warning' = msg
    /\ requests' = <<>>
    /\ UNCHANGED <<session_state, calls, first_java, eval_started, Widgets>>

\* "Generate BRD using CrewAI" pressed.
GenerateBrd ==
    \/ /\ BrdGuardFails(cobol_code)
       /\ Reject("generate_brd", "Please enter some COBOL code.")
    \/ /\ ~BrdGuardFails(cobol_code)
       /\ calls + 2 <= MaxCalls
       /\ \E o1, o2 \in Outcomes :
            LET r1 == AnalysisRequest(calls + 1, cobol_code, glossary, o1)
                r2 == BrdRequest(calls + 2, r1.result, o2)
            IN  /\ invoked' = "generate_brd"
                /\ warning' = NoWarning
                /\ IF o1 = "raise"
                   THEN /\ requests' = <<r1>>
                        /\ calls' = calls + 1
                        /\ UNCHANGED session_state
                   ELSE /\ requests' = <<r1, r2>>
                        /\ calls' = calls + 2
                        /\ IF o2 = "raise"
                           THEN UNCHANGED session_state
                           ELSE session_state' = StoreBrd(session_state, r2.result)
                /\ UNCHANGED <<first_java, eval_started, Widgets>>

\* "Generate Java Code from BRD" pressed.
GenerateJava ==
    \/ /\ JavaGuardFails(session_state)
       /\ Reject("generate_java", "Please generate a BRD first.")
    \/ /\ ~JavaGuardFails(session_state)
       /\ calls + 1 <= MaxCalls
       /\ \E o \in Outcomes :
            LET r == JavaRequest(calls + 1, session_state, cobol_code, o)
            IN  /\ invoked' = "generate_java"
                /\ warning' = NoWarning
                /\ requests' = <<r>>
                /\ calls' = calls + 1
                /\ IF o = "raise"
                   THEN UNCHANGED <<session_state, first_java>>
                   ELSE /\ session_state' = StoreJava(session_state, r.result)
                        /\ first_java' = IF first_java = NoToken THEN r.result
                                         ELSE first_java
                /\ UNCHANGED <<eval_started, Widgets>>

\* "Evaluate & Optimize Java Code" pressed.
EvaluateAndOptimize ==
    \/ /\ EvaluateGuardFails(session_state)
       /\ Reject("evaluate_and_optimize", "Please generate Java code first.")
    \/ /\ ~EvaluateGuardFails(session_state)
       /\ calls + 2 <= MaxCalls
       /\ \E o1, o2 \in Outcomes :
            LET s1 == StoreLevelAtEvaluate(session_state)
                r1 == EvaluationRequest(calls + 1, s1, cobol_code, o1)
                s2 == StoreEvaluation(s1, r1.result)
                r2 == OptimizationRequest(calls + 2, s2, r1.result, cobol_code, o2)
            IN  /\ invoked' = "evaluate_and_optimize"
                /\ warning' = NoWarning
                /\ eval_started' = TRUE
                /\ IF o1 = "raise"
                   THEN /\ requests' = <<r1>>
                        /\ calls' = calls + 1
                        /\ session_state' = s1
                   ELSE /\ requests' = <<r1, r2>>
                        /\ calls' = calls + 2
                        /\ IF o2 = "raise"
                           THEN session_state' = s2
                           ELSE session_state' = StoreOptimized(s2, r2.result)
                /\ UNCHANGED <<first_java, Widgets>>

\* "Apply Enterprise-Grade Refinements": rendered, and then pressed, only
\* once "optimized_java_output" is stored; otherwise the run renders no
\* button and the handler is skipped.
RefineEnterprise ==
    \/ /\ ~RefineButtonRendered(session_state)
       /\ Reject("refine_enterprise", NoWarning)
    \/ /\ RefineButtonRendered(session_state)
       /\ calls + 1 <= MaxCalls
       /\ \E o \in Outcomes :
            LET r == RefinementRequest(calls + 1, session_state, cobol_code, o)
            IN  /\ invoked' = "refine_enterprise"
                /\ warning' = NoWarning
                /\ requests' = <<r>>
                /\ calls' = calls + 1
                /\ IF o = "raise"
                   THEN UNCHANGED session_state
                   ELSE session_state' = StoreEnterprise(session_state, r.result)
                /\ UNCHANGED <<first_java, eval_started, Widgets>>

\* A run with no button pressed: the user edited the COBOL text area.
EditCobol ==
    /\ \E t \in Texts : t # cobol_code /\ cobol_code' = t
    /\ invoked' = "none"
    /\ warning' = NoWarning
    /\ requests' = <<>>
    /\ UNCHANGED <<session_state, glossary, show_original, calls, first_java,
                   eval_started>>

\* A run with no button pressed: the user edited the glossary text area.
EditGlossary ==
    /\ \E t \in GlossaryTexts : t # glossary /\ glossary' = t
    /\ invoked' = "none"
    /\ warning' = NoWarning
    /\ requests' = <<>>
    /\ UNCHANGED <<session_state, cobol_code, show_original, calls, first_java,
                   eval_started>>

\* Variant: a run with no button pressed starts from an empty session.
NoButtonRun_ResetsSession ==
    /\ invoked' = "none"
    /\ warning' = NoWarning
    /\ requests' = <<>>
    /\ session_state' = EmptySession
    /\ UNCHANGED <<calls, first_java, eval_started>>

\* A run in which no stage button returns True: every handler is skipped and
\* the script only renders what is stored.
NoButtonRun ==
    /\ invoked' = "none"
    /\ warning' = NoWarning
    /\ requests' = <<>>
    /\ UNCHANGED <<session_state, calls, first_java, eval_started>>

\* The "Show Original Java Code" checkbox, rendered under the evaluation
\* report, was toggled.
ToggleShowOriginal ==
    /\ Has(session_state, "evaluation_report")
    /\ show_original' = ~show_original
    /\ NoButtonRun
    /\ UNCHANGED <<cobol_code, glossary>>

\* "Download BRD as Word Document" clicked.
DownloadBrd ==
    /\ Has(session_state, "brd_output")
    /\ NoButtonRun
    /\ UNCHANGED Widgets

\* The Java download button clicked.
DownloadJava ==
    /\ Has(session_state, "java_output")
    /\ NoButtonRun
    /\ UNCHANGED Widgets

Next ==
    \/ GenerateBrd
    \/ GenerateJava
    \/ EvaluateAndOptimize
    \/ RefineEnterprise
    \/ EditCobol
    \/ EditGlossary
    \/ ToggleShowOriginal
    \/ DownloadBrd
    \/ DownloadJava

Spec == Init /\ [][Next]_vars

\* ================================================================ claims
Level(s) == IF Has(s, "optimization_level") THEN s["optimization_level"] ELSE "absent"

\* Blank or whitespace-only text, said without strip().
Blank(code) == \A i \in 1..Len(code) : code[i] = " "

\* The predecessor a stage requires is absent.
PredecessorAbsent(stage, s, code) ==
    CASE stage = "generate_brd" -> Blank(code)
      [] stage = "generate_java" -> "brd_output" \notin DOMAIN s
      [] stage = "evaluate_and_optimize" -> "java_output" \notin DOMAIN s
      [] stage = "refine_enterprise" -> "optimized_java_output" \notin DOMAIN s

\* The latest run sent requests and the last of them raised.
RunFailed == requests # <<>> /\ requests[Len(requests)].result = Raised

\* The latest run was this stage and every request of it returned.
RunSucceeded(stage) ==
    /\ invoked = stage
    /\ requests # <<>>
    /\ Len(requests) = (IF stage \in {"generate_brd", "evaluate_and_optimize"} THEN 2 ELSE 1)
    /\ requests[Len(requests)].result # Raised

EmbedsJava(r) == r.task \in {"evaluation", "optimization", "refinement"}

JavaTasks == {"java_generation", "optimization", "refinement"}

StageOfTask(task) ==
    CASE task \in {"analysis", "brd_generation"} -> 1
      [] task = "java_generation" -> 2
      [] task \in {"evaluation", "optimization"} -> 3
      [] task = "refinement" -> 4

\* C1: a stage invoked while its required predecessor is absent (blank or
\* whitespace-only COBOL source, no brd_output, no java_output, no
\* optimized_java_output) leaves every session-state key unchanged and sends
\* no request to the external model.
C1_RejectedLeavesState ==
    [][\A st \in Stages :
         (invoked' = st /\ PredecessorAbsent(st, session_state, cobol_code))
         => /\ session_state' = session_state
            /\ requests' = <<>>
            /\ calls' = calls]_vars

\* C1 witness: generate_brd was pressed on a non-empty, whitespace-only
\* COBOL text and was rejected.
C1_Witness ==
    /\ invoked = "generate_brd"
    /\ cobol_code # <<>>
    /\ Blank(cobol_code)
    /\ requests = <<>>
    /\ calls > 0

\* C2 (as claimed): right after both requests of evaluate_and_optimize
\* returned, optimization_level is "optimized".
C2_OptimizedAfterEvaluate ==
    RunSucceeded("evaluate_and_optimize")
    => Level(session_state) = "optimized"

\* C3 (as claimed): original_java_output is the result of the first
\* successful generate_java of the session.
C3_OriginalIsFirstJava ==
    Has(session_state, "original_java_output")
    => session_state["original_java_output"] = first_java

\* C3 (amended): original_java_output is written by every successful
\* generate_java, to that run's result, and by nothing else: it is the result
\* of the most recent successful generate_java, whatever
\* evaluate_and_optimize and refine_enterprise calls have run.
C3_OriginalIsLatestJava ==
    [][IF invoked' = "generate_java" /\ requests' # <<>>
          /\ requests'[1].result # Raised
       THEN /\ Has(session_state', "original_java_output")
            /\ session_state'["original_java_output"] = requests'[1].result
       ELSE /\ Has(session_state', "original_java_output")
               <=> Has(session_state, "original_java_output")
            /\ Has(session_state, "original_java_output")
               => session_state'["original_java_output"]
                    = session_state["original_java_output"]]_vars

\* C3 witness: refine_enterprise has just succeeded in a session whose
\* original snapshot is no longer the first generate_java result.
C3_Witness ==
    /\ RunSucceeded("refine_enterprise")
    /\ Has(session_state, "original_java_output")
    /\ session_state["original_java_output"] # first_java

\* C4 (as claimed): optimization_level is "enterprise" only if java_output
\* is a refine_enterprise result, and is absent only if java_output, when
\* present, is an unrefined generate_java result.
C4_LevelTracksJava ==
    /\ Level(session_state) = "enterprise"
       => /\ Has(session_state, "java_output")
          /\ session_state["java_output"].task = "refinement"
    /\ (Level(session_state) = "absent" /\ Has(session_state, "java_output"))
       => session_state["java_output"].task = "java_generation"

\* C5 (as claimed): a run in which a request raised leaves the session
\* state as it was before the run.
C5_FailureLeavesState ==
    [][RunFailed' => session_state' = session_state]_vars

C7_EveryRejectionWarns ==
    \A st \in Stages :
        (invoked = st /\ PredecessorAbsent(st, session_state, cobol_code))
        => warning # NoWarning

\* C7 (amended): generate_brd, generate_java and evaluate_and_optimize
\* invoked with the predecessor absent emit their warning; refine_enterprise
\* has no button while optimized_java_output is absent and emits nothing.
C7_RejectionWarnsWhereButtonExists ==
    /\ (invoked = "generate_brd" /\ Blank(cobol_code))
       => warning = "Please enter some COBOL code."
    /\ (invoked = "generate_java" /\ ~Has(session_state, "brd_output"))
       => warning = "Please generate a BRD first."
    /\ (invoked = "evaluate_and_optimize" /\ ~Has(session_state, "java_output"))
       => warning = "Please generate Java code first."
    /\ (invoked = "refine_enterprise" /\ ~Has(session_state, "optimized_java_output"))
       => warning = NoWarning /\ requests = <<>>

\* C7 witness: generate_java rejected for want of a BRD, with its warning.
C7_Witness ==
    /\ invoked = "generate_java"
    /\ ~Has(session_state, "brd_output")
    /\ warning = "Please generate a BRD first."

\* C8: optimization_level is "enterprise" only if a refine_enterprise
\* request has returned (enterprise_java_output is present).
C8_EnterpriseOnlyAfterRefine ==
    Level(session_state) = "enterprise"
    => Has(session_state, "enterprise_java_output")

\* C8 witness: the level is "enterprise" and the run that just ended is not
\* the refinement.
C8_Witness ==
    /\ Level(session_state) = "enterprise"
    /\ invoked = "generate_java"
    /\ requests # <<>>

\* C9: while evaluate_and_optimize has never been invoked with java_output
\* present, the key optimization_level does not exist.
C9_LevelAbsentBeforeOptimize ==
    ~eval_started => ~Has(session_state, "optimization_level")

\* C9 witness: generate_brd and generate_java have run, generate_java more
\* than once, and evaluate_and_optimize never.
C9_Witness ==
    /\ ~eval_started
    /\ Has(session_state, "java_output")
    /\ session_state["java_output"] # first_java

\* The four stages ran once each, in order, from the empty session and every
\* request returned: requests 1..6 are the analysis, the BRD, the Java code,
\* the evaluation, the optimization and the refinement.
ScenarioDone ==
    /\ calls = 6
    /\ RunSucceeded("refine_enterprise")
    /\ session_state["brd_output"] = Token("brd_generation", 2)
    /\ session_state["original_java_output"] = Token("java_generation", 3)
    /\ session_state["evaluation_report"] = Token("evaluation", 4)
    /\ session_state["optimized_java_output"] = Token("optimization", 5)
    /\ requests[1].result = Token("refinement", 6)

\* C10: after the full sequence, run once each in order with every request
\* returning, java_output is the refine_enterprise result and the download
\* file name is "Enterprise_Java_Implementation.java".
C10_FullSequence ==
    ScenarioDone
    => /\ session_state["java_output"] = Token("refinement", 6)
       /\ FileName(session_state) = "Enterprise_Java_Implementation.java"

\* C10 witness: the full sequence has run.
C10_Witness == ScenarioDone /\ Has(session_state, "java_output")

\* The key in which a stage stores its output text.
OutputKey(stage) == IF stage = "generate_brd" THEN "brd_output" ELSE "java_output"

\* C11: after a successful run of a stage, a re-run included, the stage's
\* stored output (brd_output for generate_brd, java_output for the Java
\* stages) is exactly the result that run's last request returned: the
\* earlier result is overwritten, not kept or extended.
C11_RerunOverwrites ==
    \A st \in Stages :
        RunSucceeded(st)
        => /\ Has(session_state, OutputKey(st))
           /\ session_state[OutputKey(st)] = requests[Len(requests)].result
           /\ session_state[OutputKey(st)].call = calls

\* C11 witness: generate_brd succeeded a second time, with a BRD (and the
\* Java code generated from it) already stored.
C11_Witness ==
    /\ RunSucceeded("generate_brd")
    /\ Has(session_state, "java_output")
    /\ session_state["brd_output"].call > session_state["java_output"].call

\* The stored outputs follow the order of the stages.
LinearOrder(s) ==
    /\ Has(s, "java_output") => Has(s, "brd_output")
    /\ Has(s, "optimized_java_output") => Has(s, "java_output")
    /\ Has(s, "enterprise_java_output") => Has(s, "optimized_java_output")

\* C12: after every run java_output present implies brd_output present,
\* optimized_java_output present implies java_output present and
\* enterprise_java_output present implies optimized_java_output present; and
\* a run sends a refinement request only from a state in which
\* evaluate_and_optimize has completed (optimized_java_output holds the
\* result of an optimization request).
C12_LinearOrder ==
    [][/\ LinearOrder(session_state')
       /\ (\E i \in 1..Len(requests') : requests'[i].task = "refinement")
          => /\ Has(session_state, "optimized_java_output")
             /\ session_state["optimized_java_output"].task = "optimization"
             /\ session_state["optimized_java_output"].call <= calls]_vars

\* C12 witness: a refinement request was sent and failed, in a session
\* that holds the outputs of all four stages from earlier runs.
C12_Witness ==
    /\ invoked = "refine_enterprise"
    /\ RunFailed
    /\ Has(session_state, "enterprise_java_output")
    /\ LinearOrder(session_state)

\* C13: a run in which no stage button is pressed (a text edit, a toggle of
\* the "Show Original Java Code" checkbox, a download click) leaves every
\* session-state key unchanged and sends no request.
C13_OnlyButtonsAdvance ==
    [][invoked' = "none"
       => /\ session_state' = session_state
          /\ requests' = <<>>
          /\ calls' = calls]_vars

\* C13 witness: the checkbox was ticked in a session that holds the outputs
\* of all four stages.
C13_Witness ==
    /\ invoked = "none"
    /\ show_original
    /\ Has(session_state, "enterprise_java_output")
    /\ requests = <<>>

\* C14: in evaluate_and_optimize the requests go out one after the other:
\* the evaluation request is first; the optimization request exists only
\* if the evaluation returned, is the very next request, and its prompt
\* embeds the evaluation's whole result, the java_output stored before the
\* stage and the COBOL source; if the evaluation raised nothing follows it.
C14_SubRequestsInSequence ==
    [][(invoked' = "evaluate_and_optimize" /\ requests' # <<>>)
       => /\ Len(requests') <= 2
          /\ requests'[1].task = "evaluation"
          /\ requests'[1].call = calls + 1
          /\ Len(requests') = 2 <=> requests'[1].result # Raised
          /\ Len(requests') = 2
             => /\ requests'[2].task = "optimization"
                /\ requests'[2].call = requests'[1].call + 1
                /\ requests'[2].report = requests'[1].result
                /\ requests'[2].java = session_state["java_output"]
                /\ requests'[2].cobol = cobol_code]_vars

\* C14 witness: both requests of evaluate_and_optimize were sent, on the
\* Java code of generate_java, and the optimization raised.
C14_Witness ==
    /\ invoked = "evaluate_and_optimize"
    /\ Len(requests) = 2
    /\ requests[2].report = requests[1].result
    /\ requests[2].java.task = "java_generation"
    /\ requests[2].result = Raised

\* A key holds in t what it held in s (present with the same value, or
\* absent in both).
SameAt(s, t, k) ==
    /\ Has(s, k) <=> Has(t, k)
    /\ Has(s, k) => t[k] = s[k]

\* The keys stored by the stages before the given one.
EarlierKeys(stage) ==
    CASE stage = "generate_brd" -> {}
      [] stage = "generate_java" -> {"brd_output"}
      [] stage = "evaluate_and_optimize" ->
            {"brd_output", "java_output", "original_java_output"}
      [] stage = "refine_enterprise" ->
            {"brd_output", "java_output", "original_java_output",
             "evaluation_report", "optimized_java_output"}

\* C15: when a request of generate_java, evaluate_and_optimize or
\* refine_enterprise raises, the outputs stored by the earlier stages keep
\* the values they had before the run.
C15_FailureKeepsEarlierOutputs ==
    [][\A st \in Stages :
         (invoked' = st /\ RunFailed')
         => \A k \in EarlierKeys(st) : SameAt(session_state, session_state', k)]_vars

\* C15 witness: the optimization request of evaluate_and_optimize raised
\* after its evaluation returned, in a session already refined once.
C15_Witness ==
    /\ invoked = "evaluate_and_optimize"
    /\ RunFailed
    /\ Len(requests) = 2
    /\ Has(session_state, "enterprise_java_output")
    /\ session_state["java_output"] = session_state["enterprise_java_output"]

\* The keys the handlers store.
EntityKeys ==
    {"brd_output", "java_output", "original_java_output", "evaluation_report",
     "optimized_java_output", "enterprise_java_output", "optimization_level"}

\* C16: a session-state key that is present stays present after every run,
\* successful, rejected or failed.
C16_NoDeletion ==
    [][\A k \in EntityKeys : Has(session_state, k) => Has(session_state', k)]_vars

\* C16 witness: generate_java succeeded again in a session holding every
\* key, and every key is still there.
C16_Witness ==
    /\ RunSucceeded("generate_java")
    /\ DOMAIN session_state = EntityKeys
    /\ session_state["java_output"].call > session_state["enterprise_java_output"].call

\* The keys a stage writes.
OwnKeys(stage) ==
    CASE stage = "generate_brd" -> {"brd_output"}
      [] stage = "generate_java" -> {"java_output", "original_java_output"}
      [] stage = "evaluate_and_optimize" ->
            {"optimization_level", "evaluation_report",
             "optimized_java_output", "java_output"}
      [] stage = "refine_enterprise" ->
            {"enterprise_java_output", "java_output", "optimization_level"}

\* C17: a successful run of a stage leaves every key other than the
\* stage's own as it was (generate_brd: brd_output; generate_java:
\* java_output, original_java_output; evaluate_and_optimize:
\* optimization_level, evaluation_report, optimized_java_output,
\* java_output; refine_enterprise: enterprise_java_output, java_output,
\* optimization_level), and its own keys are present afterwards.
C17_WritesOnlyOwnKeys ==
    [][\A st \in Stages :
         RunSucceeded(st)'
         => /\ \A k \in EntityKeys \ OwnKeys(st) :
                  SameAt(session_state, session_state', k)
            /\ OwnKeys(st) \subseteq DOMAIN session_state'
            /\ DOMAIN session_state' = DOMAIN session_state \cup OwnKeys(st)]_vars

\* C17 witness: refine_enterprise succeeded in a run that did not directly
\* follow the optimization whose stored result it left alone.
C17_Witness ==
    /\ RunSucceeded("refine_enterprise")
    /\ session_state["enterprise_java_output"].call
         > session_state["optimized_java_output"].call + 1
    /\ session_state["optimized_java_output"].task = "optimization"

\* The stored results of the three Java-producing stages.
JavaResultKeys ==
    {"original_java_output", "optimized_java_output", "enterprise_java_output"}

\* The key holding the result of the most recent Java-producing stage that
\* completed: requests are numbered in the order they are sent, so it is the
\* stored result with the highest request number.
LatestJavaKey(s) ==
    CHOOSE k \in JavaResultKeys \cap DOMAIN s :
        \A j \in JavaResultKeys \cap DOMAIN s : s[j].call <= s[k].call

\* C18: whenever java_output is present it equals the stored result of the
\* most recent successfully completed Java-producing stage:
\* original_java_output after generate_java, optimized_java_output after
\* evaluate_and_optimize, enterprise_java_output after refine_enterprise.
C18_JavaIsLatestResult ==
    Has(session_state, "java_output")
    => /\ JavaResultKeys \cap DOMAIN session_state # {}
       /\ session_state["java_output"] = session_state[LatestJavaKey(session_state)]
       /\ session_state["java_output"].task =
            (CASE LatestJavaKey(session_state) = "original_java_output" -> "java_generation"
               [] LatestJavaKey(session_state) = "optimized_java_output" -> "optimization"
               [] LatestJavaKey(session_state) = "enterprise_java_output" -> "refinement")

\* C18 witness: evaluate_and_optimize completed after refine_enterprise:
\* java_output is the optimized code, not the older enterprise code.
C18_Witness ==
    /\ Has(session_state, "enterprise_java_output")
    /\ LatestJavaKey(session_state) = "optimized_java_output"
    /\ session_state["java_output"] # session_state["enterprise_java_output"]

\* C19: in every reachable state, states after failed requests included,
\* evaluation_report present implies original_java_output present, so every
\* key the display sections read (the original-code view under the
\* evaluation report among them) is present.
C19_DisplayReadsPresentKeys ==
    /\ Has(session_state, "evaluation_report")
       => Has(session_state, "original_java_output")
    /\ DisplayReads(session_state, show_original) \subseteq DOMAIN session_state

\* C19 witness: the original-code view is rendered in a session whose only
\* evaluate_and_optimize run failed at the optimization request.
C19_Witness ==
    /\ show_original
    /\ Has(session_state, "evaluation_report")
    /\ ~Has(session_state, "optimized_java_output")
    /\ "original_java_output" \in DisplayReads(session_state, show_original)

\* The requests whose prompt embeds the COBOL text area.
EmbedsCobol(r) == r.task # "brd_generation"

\* C20 (as claimed): no request is sent with a blank or whitespace-only
\* COBOL source, whichever stage sends it.
C20_NoRequestOnBlankCobol ==
    \A i \in 1..Len(requests) :
        EmbedsCobol(requests[i]) => ~Blank(requests[i].cobol)

====
